---- MODULE Spec2Model ----
(***************************************************************************)
(* hddrand: fill a raw device with a seeded pseudorandom stream            *)
(* (fill_drive) and verify that the device still holds it (verify_drive).  *)
(*                                                                         *)
(* The device is a byte array of fixed size with one file cursor.  Sizes   *)
(* are scaled down: the seed is SeedLen bytes (32 in main.rs), the seed    *)
(* read buffer SeedBufLen bytes (1024), a chunk ChunkLen bytes (8 MiB),    *)
(* with SeedLen <= SeedBufLen <= ChunkLen as in the source.  Buffers are   *)
(* functions over 0..Len-1, indexed as the Rust slices are.                *)
(***************************************************************************)
EXTENDS Integers, Sequences, FiniteSets, TLC

\* ---- bounds of the model ----
MaxDev == 9          \* largest device size, in bytes
ByteVals == 2        \* a byte takes the values 0..ByteVals-1
MaxDevR == 5         \* largest device size when the reporter thread runs

\* ---- program constants (scaled) ----
SeedLen == 2         \* [u8; 32]
SeedBufLen == 3      \* [0u8; 1024]
ChunkLen == 4        \* 8 * 1024 * 1024
ENOSPC == 28
EIO == 5             \* any errno other than ENOSPC

Byte == 0..(ByteVals - 1)
Runs == {"fill", "verify"}

VARIABLES
    dev,            \* device content: dev[i+1] is the byte at offset i
    pos,            \* cursor of the open file
    pc,             \* position of the main thread
    result,         \* result[r]: what run r returned to main
    done,           \* done[r]: the AtomicBool of run r
    total,          \* total[r]: total_written / total_read of run r
    on_drop,        \* on_drop[r]: the OnDrop guard of run r
    seed,           \* the seed of the running function
    rng,            \* bytes the ChaCha8Rng has produced since seeding
    first_time,
    buffer,         \* fill_drive: buffer
    read_offset,    \* fill_drive: read_offset
    seed_buf,       \* verify_drive: seed_buf
    bytes_read,     \* verify_drive: bytes_read of the seed loop
    rand_buffer,    \* verify_drive: rand_buffer
    read_buffer,    \* verify_drive: read_buffer
    write_offset,   \* verify_drive: write_offset
    read,           \* verify_drive: the count the last read returned
    mismatch,       \* what verify_drive printed about a mismatch
    short,          \* history: some transfer moved less than it could have
    corrupted,      \* history: somebody else changed a byte of the device
    eof,            \* history: a read into a non-empty buffer returned 0
    rpc,            \* position of the reporter thread of the process
    previous_bytes, \* reporter: previous_bytes
    late_line,      \* history: a progress line came out after Done was set
    moved,          \* history: moved[r]: bytes the main loop's calls moved
    failed          \* history: failed[r]: errno of the transfer that failed

vars == <<dev, pos, pc, result, done, total, on_drop, seed, rng, first_time,
          buffer, read_offset, seed_buf, bytes_read, rand_buffer, read_buffer,
          write_offset, read, mismatch, short, corrupted, eof, rpc,
          previous_bytes, late_line, moved, failed>>

\* ---- helpers ----
Min(a, b) == IF a < b THEN a ELSE b

DevSize == Len(dev)
DevAt(i) == dev[i + 1]

Zeros(n) == [i \in 0..(n - 1) |-> 0]

\* what a run hands to main: Ok((bytes, elapsed)), Err(e) or a panic
NoResult == [kind |-> "none", bytes |-> 0, errno |-> 0]
Ok(n) == [kind |-> "Ok", bytes |-> n, errno |-> 0]
Err(e) == [kind |-> "Err", bytes |-> 0, errno |-> e]
Panic == [kind |-> "Panic", bytes |-> 0, errno |-> 0]

NoMismatch == [seen |-> FALSE, offset |-> 0, expected |-> 0, found |-> 0]

\* ---- the stream generator ----
\* A stand-in for the ChaCha8 keystream: a fixed function of the seed and of
\* the position in the stream, byte p of the stream seeded with s.
RECURSIVE SeedMix(_, _)
SeedMix(s, n) == IF n = 0 THEN 0 ELSE (n + 1) * s[n - 1] + SeedMix(s, n - 1)

KS(s, p) == (SeedMix(s, SeedLen) + (p * (p + 3)) \div 2 + p \div 3) % ByteVals

\* rng.fill_bytes(&mut buf[..]) with the generator at position p: the next
\* ChunkLen bytes of the stream.
FillBytesRestart(s, p) == [j \in 0..(ChunkLen - 1) |-> KS(s, j)]
FillBytes(s, p) == [j \in 0..(ChunkLen - 1) |-> KS(s, p + j)]

\* (&mut buf[..]).write_all(&seed): the seed over the head of the buffer.
WriteAll(buf, s) ==
    [j \in 0..(ChunkLen - 1) |-> IF j < SeedLen THEN s[j] ELSE buf[j]]

\* the buffer of a chunk: fill_bytes, then on the first chunk the seed
ChunkBuffer(s, p, first) ==
    IF first THEN WriteAll(FillBytes(s, p), s) ELSE FillBytes(s, p)

\* total.fetch_add(n)
FetchAddStore(t, n) == n
FetchAdd(t, n) == t + n

\* OnDrop::drop: the closure stores true in the flag of run r
DropSkipped(d, r) == d
Drop(d, r) == [d EXCEPT ![r] = TRUE]

\* file.seek(SeekFrom::Start(target)) with the cursor at p
SeekStay(p, target) == p
Seek(p, target) == target

\* ---- the device ----
\* Byte counts a write of a buffer of len bytes may report with the cursor at
\* p: 0 for an empty buffer, 0 at the end of the device (where the device
\* may instead fail with ENOSPC), else any nonzero part of what fits.
WriteCounts(len, p) ==
    IF len = 0 \/ p >= DevSize THEN {0} ELSE 1..Min(len, DevSize - p)

ReadCounts(len, p) ==
    IF len = 0 \/ p >= DevSize THEN {0} ELSE 1..Min(len, DevSize - p)

IsShort(n, len, p) == n < Min(len, DevSize - p)

\* the device after n bytes of buf, from index off on, were written at p
DevWritten(buf, off, n, p) ==
    [i \in 1..DevSize |->
        IF (i - 1) >= p /\ (i - 1) < p + n THEN buf[off + (i - 1 - p)] ELSE dev[i]]

\* buf after n device bytes from p on were read into it from index off on
BufRead(buf, off, n, p) ==
    [j \in DOMAIN buf |->
        IF j >= off /\ j < off + n THEN DevAt(p + (j - off)) ELSE buf[j]]

\* ---- main ----
Init ==
    /\ dev \in {[i \in 1..n |-> 0] : n \in 0..MaxDev}
    /\ pos = 0
    /\ pc = "main"
    /\ result = [r \in Runs |-> NoResult]
    /\ done = [r \in Runs |-> FALSE]
    /\ total = [r \in Runs |-> 0]
    /\ on_drop = [r \in Runs |-> "none"]
    /\ seed = Zeros(SeedLen)
    /\ rng = 0
    /\ first_time = TRUE
    /\ buffer = Zeros(ChunkLen)
    /\ read_offset = 0
    /\ seed_buf = Zeros(SeedBufLen)
    /\ bytes_read = 0
    /\ rand_buffer = Zeros(ChunkLen)
    /\ read_buffer = Zeros(ChunkLen)
    /\ write_offset = 0
    /\ read = 0
    /\ mismatch = NoMismatch
    /\ short = FALSE
    /\ corrupted = FALSE
    /\ eof = FALSE
    /\ rpc = "none"
    /\ previous_bytes = 0
    /\ late_line = FALSE
    /\ moved = [r \in Runs |-> 0]
    /\ failed = [r \in Runs |-> 0]

fillVars == <<buffer, read_offset>>
verifyVars == <<seed_buf, bytes_read, rand_buffer, read_buffer, write_offset,
                read, mismatch, eof>>
reporterVars == <<rpc, previous_bytes, late_line>>
histVars == <<moved, failed>>

\* main without --verify, a new process with no reporter thread yet:
\* fill_drive up to the open of the device
MainFill ==
    /\ pc = "main"
    /\ result["fill"].kind = "none"
    /\ result["verify"].kind = "none"
    /\ \E s \in [0..(SeedLen - 1) -> Byte] :
          /\ seed' = s
          /\ rng' = 0
          /\ first_time' = TRUE
          /\ buffer' = Zeros(ChunkLen)
    /\ pc' = "f_open"
    /\ rpc' = "none"
    /\ previous_bytes' = 0
    /\ UNCHANGED <<dev, pos, result, done, total, on_drop, read_offset,
                   verifyVars, short, corrupted, late_line, histVars>>

\* main with --verify, a new process with no reporter thread yet:
\* verify_drive up to the open of the device
MainVerify ==
    /\ pc = "main"
    /\ result["verify"].kind = "none"
    /\ first_time' = TRUE
    /\ read_buffer' = Zeros(ChunkLen)
    /\ rand_buffer' = Zeros(ChunkLen)
    /\ pc' = "v_open"
    /\ rpc' = "none"
    /\ previous_bytes' = 0
    /\ UNCHANGED <<dev, pos, result, done, total, on_drop, seed, rng, fillVars,
                   seed_buf, bytes_read, write_offset, read, mismatch, short,
                   corrupted, eof, late_line, histVars>>

\* between two runs somebody else changes one byte of the device
Corrupt ==
    /\ pc = "main"
    /\ result["verify"].kind = "none"
    /\ ~corrupted
    /\ \E i \in 1..DevSize, b \in Byte :
          /\ b # dev[i]
          /\ dev' = [dev EXCEPT ![i] = b]
    /\ corrupted' = TRUE
    /\ UNCHANGED <<pos, pc, result, done, total, on_drop, seed, rng, first_time,
                   fillVars, verifyVars, short, reporterVars, histVars>>

Returned(r) == result[r].kind # "none"

\* ---- fill_drive ----
\* the function returns r to main; its locals are dropped, the guard among
\* them when it is armed
Return(run, r) ==
    /\ result' = [result EXCEPT ![run] = r]
    /\ done' = IF on_drop[run] = "armed" THEN Drop(done, run) ELSE done
    /\ on_drop' = IF on_drop[run] = "armed"
                     THEN [on_drop EXCEPT ![run] = "dropped"] ELSE on_drop
    /\ pc' = "m_exit"

\* start_progress_thread: thread::spawn
Spawned == "start"

FillOpen ==
    /\ pc = "f_open"
    /\ \/ /\ pos' = 0
          /\ on_drop' = [on_drop EXCEPT !["fill"] = "armed"]
          /\ rpc' = Spawned
          /\ pc' = "f_gen"
          /\ UNCHANGED <<result, done>>
       \/ /\ Return("fill", Err(EIO))
          /\ UNCHANGED <<pos, rpc>>
    /\ UNCHANGED <<dev, total, seed, rng, first_time, fillVars, verifyVars,
                   short, corrupted, previous_bytes, late_line, histVars>>

FillGen ==
    /\ pc = "f_gen"
    /\ buffer' = ChunkBuffer(seed, rng, first_time)
    /\ rng' = rng + ChunkLen
    /\ first_time' = FALSE
    /\ read_offset' = 0
    /\ pc' = "f_write"
    /\ UNCHANGED <<dev, pos, result, done, total, on_drop, seed, verifyVars,
                   short, corrupted, reporterVars, histVars>>

\* file.write(&buffer[read_offset..]) reported Ok(written)
FillWriteOk ==
    /\ pc = "f_write"
    /\ \E written \in WriteCounts(ChunkLen - read_offset, pos) :
          /\ dev' = DevWritten(buffer, read_offset, written, pos)
          /\ pos' = pos + written
          /\ short' = (short \/ IsShort(written, ChunkLen - read_offset, pos))
          /\ read_offset' = read_offset + written
          /\ total' = [total EXCEPT !["fill"] = FetchAdd(total["fill"], written)]
          /\ moved' = [moved EXCEPT !["fill"] = @ + written]
          /\ IF written = ChunkLen
                THEN /\ pc' = "f_gen"
                     /\ UNCHANGED <<result, done, on_drop>>
                ELSE IF written = 0
                        THEN Return("fill", Ok(total'["fill"]))
                        ELSE /\ pc' = "f_write"
                             /\ UNCHANGED <<result, done, on_drop>>
    /\ UNCHANGED <<seed, rng, first_time, buffer, verifyVars, corrupted,
                   reporterVars, failed>>

\* the errors a write of a buffer of len bytes may fail with, the cursor at
\* p: ENOSPC at the end of the device, any other error anywhere
WriteErrors(len, p) ==
    IF len > 0 /\ p >= DevSize THEN {ENOSPC, EIO} ELSE {EIO}

\* the Err arms of the match on file.write
OnWriteErrAll(e, t) == Err(e)
OnWriteErrSwallow(e, t) == Ok(t)
OnWriteErr(e, t) == IF e = ENOSPC THEN Ok(t) ELSE Err(e)

\* file.write(&buffer[read_offset..]) reported Err(e)
FillWriteErr ==
    /\ pc = "f_write"
    /\ \E e \in WriteErrors(ChunkLen - read_offset, pos) :
          /\ Return("fill", OnWriteErr(e, total["fill"]))
          /\ failed' = [failed EXCEPT !["fill"] = e]
    /\ UNCHANGED <<dev, pos, total, seed, rng, first_time, fillVars, verifyVars,
                   short, corrupted, reporterVars, moved>>

\* ---- verify_drive ----
VerifyOpen ==
    /\ pc = "v_open"
    /\ \/ /\ pos' = 0
          /\ on_drop' = [on_drop EXCEPT !["verify"] = "armed"]
          /\ seed_buf' = Zeros(SeedBufLen)
          /\ bytes_read' = 0
          /\ rpc' = Spawned
          /\ pc' = "v_seed"
          /\ UNCHANGED <<result, done>>
       \/ /\ Return("verify", Err(EIO))
          /\ UNCHANGED <<pos, seed_buf, bytes_read, rpc>>
    /\ UNCHANGED <<dev, total, seed, rng, first_time, fillVars, rand_buffer,
                   read_buffer, write_offset, read, mismatch, short, corrupted,
                   eof, previous_bytes, late_line, histVars>>

\* what the seed loop does when a read returns zero bytes: panic!
SeedEofOk == Ok(0)
SeedEofOutcome == Panic

\* one turn of the seed loop: file.read(&mut seed_buf) reported Ok(n); zero
\* bytes is the panic, whose unwinding drops the guard
SeedRead ==
    /\ pc = "v_seed"
    /\ bytes_read < SeedLen
    /\ \E n \in ReadCounts(SeedBufLen, pos) :
          /\ seed_buf' = BufRead(seed_buf, 0, n, pos)
          /\ pos' = pos + n
          /\ short' = (short \/ IsShort(n, SeedBufLen, pos))
          /\ bytes_read' = bytes_read + n
          /\ IF n = 0
                THEN Return("verify", SeedEofOutcome)
                ELSE /\ pc' = IF bytes_read' < SeedLen THEN "v_seed" ELSE "v_seek"
                     /\ UNCHANGED <<result, done, on_drop>>
    /\ UNCHANGED <<dev, total, seed, rng, first_time, fillVars, rand_buffer,
                   read_buffer, write_offset, read, mismatch, corrupted, eof,
                   reporterVars, histVars>>

\* file.read or file.seek of verify_drive failed: the ? returns the error
VerifyIoErr ==
    /\ pc \in {"v_seed", "v_seek", "v_read"}
    /\ Return("verify", Err(EIO))
    /\ failed' = [failed EXCEPT !["verify"] = EIO]
    /\ UNCHANGED <<dev, pos, total, seed, rng, first_time, fillVars, verifyVars,
                   short, corrupted, reporterVars, moved>>

\* file.seek(SeekFrom::Start(0)), then the seed out of seed_buf and the rng
SeedSeek ==
    /\ pc = "v_seek"
    /\ pos' = Seek(pos, 0)
    /\ seed' = [j \in 0..(SeedLen - 1) |-> seed_buf[j]]
    /\ rng' = 0
    /\ pc' = "v_gen"
    /\ UNCHANGED <<dev, result, done, total, on_drop, first_time, fillVars,
                   verifyVars, short, corrupted, reporterVars, histVars>>

VerifyGen ==
    /\ pc = "v_gen"
    /\ rand_buffer' = ChunkBuffer(seed, rng, first_time)
    /\ rng' = rng + ChunkLen
    /\ first_time' = FALSE
    /\ write_offset' = 0
    /\ pc' = "v_read"
    /\ UNCHANGED <<dev, pos, result, done, total, on_drop, seed, fillVars,
                   seed_buf, bytes_read, read_buffer, read, mismatch, short,
                   corrupted, eof, reporterVars, histVars>>

\* read_buffer[off..][..n] != rand_buffer[off..][..n]
Differ(rb, xb, off, n) == \E i \in off..(off + n - 1) : rb[i] # xb[i]

\* the for loop over off..off+n: the first index that differs, 0 when none
MismatchLast(rb, xb, off, n) ==
    IF Differ(rb, xb, off, n)
       THEN CHOOSE i \in off..(off + n - 1) :
               /\ rb[i] # xb[i]
               /\ \A j \in off..(off + n - 1) : j > i => rb[j] = xb[j]
       ELSE 0
MismatchStart(rb, xb, off, n) ==
    IF Differ(rb, xb, off, n)
       THEN CHOOSE i \in off..(off + n - 1) :
               /\ rb[i] # xb[i]
               /\ \A j \in off..(off + n - 1) : j < i => rb[j] = xb[j]
       ELSE 0

\* of the n bytes of a read that compared unequal, those that reach
\* total_read: none, the return comes before the fetch_add
CountedOnMismatchAll(n) == n
CountedOnMismatch(n) == 0

\* file.read(&mut read_buffer[write_offset..]) reported Ok(n), and the
\* comparison of what was read
VerifyRead ==
    /\ pc = "v_read"
    /\ \E n \in ReadCounts(ChunkLen - write_offset, pos) :
          /\ read_buffer' = BufRead(read_buffer, write_offset, n, pos)
          /\ pos' = pos + n
          /\ short' = (short \/ IsShort(n, ChunkLen - write_offset, pos))
          /\ eof' = (eof \/ (n = 0 /\ ChunkLen - write_offset > 0))
          /\ read' = n
          /\ moved' = [moved EXCEPT !["verify"] = @ + n]
          /\ IF Differ(read_buffer', rand_buffer, write_offset, n)
                THEN /\ done' = Drop(done, "verify")
                     /\ on_drop' = [on_drop EXCEPT !["verify"] = "dropped"]
                     /\ pc' = "v_report"
                     /\ total' = [total EXCEPT !["verify"] =
                                    FetchAdd(total["verify"], CountedOnMismatch(n))]
                     /\ UNCHANGED <<result, write_offset>>
                ELSE /\ write_offset' = write_offset + n
                     /\ total' = [total EXCEPT
                                    !["verify"] = FetchAdd(total["verify"], n)]
                     /\ IF n = ChunkLen
                           THEN /\ pc' = "v_gen"
                                /\ UNCHANGED <<result, done, on_drop>>
                           ELSE IF n = 0
                                   THEN Return("verify", Ok(total'["verify"]))
                                   ELSE /\ pc' = "v_read"
                                        /\ UNCHANGED <<result, done, on_drop>>
    /\ UNCHANGED <<dev, seed, rng, first_time, fillVars, seed_buf, bytes_read,
                   rand_buffer, mismatch, corrupted, reporterVars, failed>>

\* the mismatch branch after drop(on_drop): the two eprintln!, the return
VerifyReport ==
    /\ pc = "v_report"
    /\ LET mismatch_start ==
               MismatchStart(read_buffer, rand_buffer, write_offset, read)
       IN  mismatch' = [seen |-> TRUE,
                        offset |-> write_offset + mismatch_start,
                        expected |-> rand_buffer[mismatch_start],
                        found |-> read_buffer[mismatch_start]]
    /\ Return("verify", Ok(total["verify"]))
    /\ UNCHANGED <<dev, pos, total, seed, rng, first_time, fillVars, seed_buf,
                   bytes_read, rand_buffer, read_buffer, write_offset, read,
                   short, corrupted, eof, reporterVars, histVars>>

\* ---- main, after the run ----
mainVars == <<dev, pos, pc, result, done, total, on_drop, seed, rng,
              first_time, fillVars, verifyVars, short, corrupted, histVars>>

\* main prints the summary or the error and the process ends, and with it
\* the detached reporter thread, which nobody joins
MainExit ==
    /\ pc = "m_exit"
    /\ pc' = "main"
    /\ rpc' = IF rpc \in {"none", "exited"} THEN rpc ELSE "killed"
    /\ UNCHANGED <<dev, pos, result, done, total, on_drop, seed, rng,
                   first_time, fillVars, verifyVars, short, corrupted,
                   previous_bytes, late_line, histVars>>

\* ---- the reporter thread ----
\* the run of the process, whose counter and flag the reporter holds
Run == IF pc \in {"v_open", "v_seed", "v_seek", "v_gen", "v_read", "v_report"}
          \/ Returned("verify")
       THEN "verify" ELSE "fill"

\* let mut previous_bytes = total_bytes.load(..)
RStart ==
    /\ rpc = "start"
    /\ previous_bytes' = total[Run]
    /\ rpc' = "sleep"
    /\ UNCHANGED <<mainVars, late_line>>

\* thread::sleep(Duration::from_secs(1))
RSleep ==
    /\ rpc = "sleep"
    /\ rpc' = "check"
    /\ UNCHANGED <<mainVars, previous_bytes, late_line>>

\* if !done.load(..) { .. } else { break }
RCheck ==
    /\ rpc = "check"
    /\ rpc' = IF done[Run] THEN "exited" ELSE "print"
    /\ UNCHANGED <<mainVars, previous_bytes, late_line>>

\* the body of the if with the counter swapped out instead of loaded
RSampleSwap ==
    /\ rpc = "print"
    /\ previous_bytes' = 0
    /\ total' = [total EXCEPT ![Run] = 0]
    /\ late_line' = (late_line \/ done[Run])
    /\ rpc' = "sleep"
    /\ UNCHANGED <<dev, pos, pc, result, done, on_drop, seed, rng, first_time,
                   fillVars, verifyVars, short, corrupted, histVars>>

\* the body of the if: new_bytes = total_bytes.load(..), the rate, eprint!
RSample ==
    /\ rpc = "print"
    /\ previous_bytes' = total[Run]
    /\ late_line' = (late_line \/ done[Run])
    /\ rpc' = "sleep"
    /\ UNCHANGED mainVars

Reporter == RStart \/ RSleep \/ RCheck \/ RSample

\* ---- what the claims speak of ----

\* the fill has returned and no verify has begun: pos is still the cursor of
\* the fill and seed its seed
AfterFill == Returned("fill") /\ pc = "main" /\ ~Returned("verify")

\* the verify has extracted its seed: seed is the seed of verify_drive
SeedTaken == pc \in {"v_gen", "v_read", "v_report"} \/ result["verify"].kind = "Ok"

\* byte i of the layout of section 6: the seed, then the keystream of the
\* seed from position SeedLen on
ExpectedStream(s, i) == IF i < SeedLen THEN s[i] ELSE KS(s, i)

\* the device offsets at which the device differs from the stream of seed s
DiffOffsets(s) == {k \in 0..(DevSize - 1) : DevAt(k) # ExpectedStream(s, k)}

First(S) == CHOOSE k \in S : \A j \in S : k <= j

ShortWriteRobust ==
    (AfterFill /\ result["fill"].kind = "Ok" /\ ~corrupted)
    => (/\ result["fill"].bytes = DevSize
        /\ \A i \in 0..(DevSize - 1) : DevAt(i) = ExpectedStream(seed, i))

\* C3: a verify that returns without a mismatch has been told by the device
\* that the data ended, and returns the size of the device.
VerifyCleanOnlyAtEnd ==
    (result["verify"].kind = "Ok" /\ ~mismatch.seen)
    => (eof /\ result["verify"].bytes = DevSize)

\* C4: the offset verify prints for a mismatch is the first device offset at
\* which the device differs from the expected stream.
MismatchOffsetExact ==
    mismatch.seen
    => (/\ DiffOffsets(seed) # {}
        /\ mismatch.offset = First(DiffOffsets(seed)))

\* C5: the two bytes verify prints for a mismatch are the expected-stream
\* byte and the device byte at the first differing offset of the transfer
\* just compared, and they differ.
MismatchValues ==
    mismatch.seen
    => LET compared == {k \in DiffOffsets(seed) : k >= pos - read /\ k < pos}
       IN  /\ compared # {}
           /\ mismatch.expected = ExpectedStream(seed, First(compared))
           /\ mismatch.found = DevAt(First(compared))
           /\ mismatch.expected # mismatch.found

\* a mismatch in the second chunk, after a partial read within that chunk,
\* in a transfer that differs in two places
MismatchValuesWitness ==
    /\ mismatch.seen
    /\ pos > ChunkLen
    /\ write_offset > 0
    /\ Cardinality({k \in DiffOffsets(seed) : k >= pos - read /\ k < pos}) > 1

\* C6: a fill that ends on a full device returns Ok with exactly the bytes the
\* device accepted (the cursor of the device), and never hands ENOSPC on.
ExhaustionAccounting ==
    AfterFill
    => (/\ result["fill"].kind = "Ok" => result["fill"].bytes = pos
        /\ result["fill"].kind = "Err" => result["fill"].errno # ENOSPC)

\* a fill the device ended after more than a chunk, taken in partial writes
ExhaustionWitness ==
    /\ AfterFill
    /\ result["fill"].kind = "Ok"
    /\ result["fill"].bytes = DevSize
    /\ DevSize > ChunkLen
    /\ DevSize % ChunkLen # 0
    /\ short

\* C7: the seed verify builds the expected stream from is the first SeedLen
\* bytes of the device.
SeedIsDevicePrefix ==
    SeedTaken => \A j \in 0..(SeedLen - 1) : seed[j] = DevAt(j)

\* C8: what verify returns after a mismatch is no value that a clean run to
\* the end of a device returns (a clean run returns Ok of the device size).
OutcomesDistinct ==
    (Returned("verify") /\ mismatch.seen)
    => result["verify"] \notin {Ok(n) : n \in 0..MaxDev}

\* C9: after a fill that returned bytes_written = W, every device offset
\* below W holds the seed byte (below SeedLen) or the keystream byte of that
\* position.
FillLayout ==
    (AfterFill /\ result["fill"].kind = "Ok" /\ ~corrupted)
    => \A i \in 0..(result["fill"].bytes - 1) : DevAt(i) = ExpectedStream(seed, i)

\* a fill of more than a chunk that met partial writes
FillLayoutWitness ==
    /\ AfterFill
    /\ result["fill"].kind = "Ok"
    /\ ~corrupted
    /\ result["fill"].bytes > ChunkLen
    /\ short
    /\ \E j \in 0..(SeedLen - 1) : seed[j] # 0

ReporterObservesDone ==
    (pc = "m_exit" /\ rpc \notin {"none", "exited"}) ~> (rpc = "exited")

\* C12: whenever fill_drive or verify_drive has returned (or panicked), the
\* reporter thread, if one was spawned, has left its loop.
ReporterGoneAtReturn ==
    pc = "m_exit" => rpc \in {"none", "exited"}

\* C13: no step of the reporter changes the Transfer Counter, the Done flag
\* or anything else the main thread reads, and under every interleaving with
\* the reporter a run that returns Ok returns what the device's answers
\* alone fix: the bytes its calls moved, less a mismatching read.
ReporterNonInterference ==
    /\ [][Reporter => UNCHANGED mainVars]_vars
    /\ [](\A r \in Runs :
            result[r].kind = "Ok"
            => result[r].bytes =
                  IF r = "verify" /\ mismatch.seen
                     THEN moved[r] - read ELSE moved[r])

\* the reporter sampled the counter in the middle of a fill that went on
\* and returned Ok
ReporterWitness ==
    /\ pc = "m_exit"
    /\ result["fill"].kind = "Ok"
    /\ ~Returned("verify")
    /\ rpc = "sleep"
    /\ previous_bytes > 0
    /\ previous_bytes < result["fill"].bytes

\* C14 as stated: a run that returns Ok returns the sum of the byte counts
\* of all the successful calls of its main loop, the last one included.
ExactFinalCountAll ==
    \A r \in Runs : result[r].kind = "Ok" => result[r].bytes = moved[r]

\* C14 amended: the same, but for a mismatch, where the count is the sum
\* over the calls before the read that compared unequal.
ExactFinalCount ==
    \A r \in Runs :
        result[r].kind = "Ok"
        => result[r].bytes =
              IF r = "verify" /\ mismatch.seen
                 THEN moved[r] - read ELSE moved[r]

\* a verify that stopped on a mismatch in its second chunk, after partial
\* reads, and a fill that returned Ok
ExactFinalCountWitness ==
    /\ result["fill"].kind = "Ok"
    /\ result["fill"].bytes > 0
    /\ result["verify"].kind = "Ok"
    /\ mismatch.seen
    /\ read > 1
    /\ moved["verify"] > ChunkLen
    /\ short

\* the positions of the main thread inside run r
RunPcs(r) ==
    IF r = "fill" THEN {"f_open", "f_gen", "f_write"}
    ELSE {"v_open", "v_seed", "v_seek", "v_gen", "v_read", "v_report"}

\* C15: when a write of fill_drive fails with an error other than ENOSPC, or
\* a read of verify_drive fails, the run has returned Err of that error, and
\* from the failure on no call of the run moves a byte.
IoFailurePropagates ==
    /\ [](\A r \in Runs :
            (failed[r] # 0 /\ ~(r = "fill" /\ failed[r] = ENOSPC))
            => (result[r] = Err(failed[r]) /\ pc \notin RunPcs(r)))
    /\ [][\A r \in Runs : failed[r] # 0 => moved'[r] = moved[r]]_vars

\* a fill that failed after a partial write, then a verify that failed after
\* a read
IoFailureWitness ==
    /\ failed["fill"] = EIO
    /\ moved["fill"] > 0
    /\ result["fill"].kind = "Err"
    /\ failed["verify"] = EIO
    /\ moved["verify"] > 0
    /\ result["verify"].kind = "Err"

\* C16: after a mismatch with first differing device offset k, the returned
\* bytes_verified is the sum of the reads before the mismatching read, and
\* is at most k.
MismatchByteCount ==
    (mismatch.seen /\ Returned("verify"))
    => (/\ result["verify"].bytes = moved["verify"] - read
        /\ DiffOffsets(seed) # {}
        /\ result["verify"].bytes <= First(DiffOffsets(seed)))

\* a mismatch past the first chunk, inside a read whose first bytes matched
MismatchByteCountWitness ==
    /\ mismatch.seen
    /\ Returned("verify")
    /\ result["verify"].bytes > ChunkLen
    /\ result["verify"].bytes < First(DiffOffsets(seed))

\* C17: at the first read of the main loop the cursor is back at offset 0,
\* the generator has produced exactly the first chunk, and the expected
\* buffer holds the seed in its first SeedLen bytes and the keystream after.
RepositionBeforeVerify ==
    (pc = "v_read" /\ moved["verify"] = 0)
    => (/\ pos = 0
        /\ rng = ChunkLen
        /\ write_offset = 0
        /\ \A j \in 0..(ChunkLen - 1) : rand_buffer[j] = ExpectedStream(seed, j))

\* the first read is due after a seed loop that took two reads and read
\* past the seed
RepositionWitness ==
    /\ pc = "v_read"
    /\ moved["verify"] = 0
    /\ bytes_read > SeedLen
    /\ short
    /\ \E j \in 0..(SeedLen - 1) : seed[j] # 0

\* C18: a verify whose seed loop got zero bytes before SeedLen bytes were
\* read ends in the panic, not in a result, with nothing compared or counted
\* and the Done flag set.
SeedFailureFatal ==
    (/\ Returned("verify")
     /\ on_drop["verify"] # "none"
     /\ bytes_read < SeedLen
     /\ failed["verify"] = 0)
    => (/\ result["verify"].kind = "Panic"
        /\ done["verify"]
        /\ ~mismatch.seen
        /\ moved["verify"] = 0
        /\ total["verify"] = 0)

\* the device ended after a part of the seed had been read
SeedFailureWitness ==
    /\ result["verify"].kind = "Panic"
    /\ bytes_read > 0
    /\ DevSize > 0
    /\ done["verify"]

\* C19: throughout verify_drive, every device offset below the Transfer
\* Counter has been read and holds the byte of the expected stream.
CounterCountsVerified ==
    SeedTaken
    => (/\ total["verify"] <= moved["verify"]
        /\ \A i \in 0..(total["verify"] - 1) :
              DevAt(i) = ExpectedStream(seed, i))

\* a mismatch was found in the second chunk after partial reads
CounterWitness ==
    /\ pc = "v_report"
    /\ total["verify"] > ChunkLen
    /\ short
    /\ read > 1

\* C20: no progress line comes out after the Done flag was set.
NoLineAfterDone == ~late_line

Next ==
    \/ MainFill
    \/ MainVerify
    \/ Corrupt
    \/ FillOpen
    \/ FillGen
    \/ FillWriteOk
    \/ FillWriteErr
    \/ VerifyOpen
    \/ SeedRead
    \/ VerifyIoErr
    \/ SeedSeek
    \/ VerifyGen
    \/ VerifyRead
    \/ VerifyReport
    \/ MainExit

\* the main thread alone: the reporter is spawned and never scheduled
Spec == Init /\ [][Next]_vars

\* the steps of the main thread of a process
MainThread ==
    \/ FillOpen
    \/ FillGen
    \/ FillWriteOk
    \/ FillWriteErr
    \/ VerifyOpen
    \/ SeedRead
    \/ VerifyIoErr
    \/ SeedSeek
    \/ VerifyGen
    \/ VerifyRead
    \/ VerifyReport
    \/ MainExit

\* main thread and reporter thread, on the smaller devices, with nobody
\* else changing the device
InitR == Init /\ DevSize <= MaxDevR

NextR ==
    \/ MainFill
    \/ MainVerify
    \/ MainThread
    \/ RStart
    \/ RSleep
    \/ RCheck
    \/ RSample

SpecR == InitR /\ [][NextR]_vars

\* both threads are scheduled as long as the process lives
FairSpecR == SpecR /\ WF_vars(Reporter) /\ WF_vars(MainThread)
====
